---- MODULE Spec2Model ----
(***************************************************************************)
(* COMPASS recommendation engine: src/recommendation_engine.py and the     *)
(* Streamlit front end src/app.py.                                         *)
(*                                                                         *)
(* Text is a sequence of characters.  " " stands for any whitespace        *)
(* character, "|" for one occurrence of the 32-dash delimiter of           *)
(* products.txt, the other characters for words of a product description.  *)
(* Python list positions are 0-based; PyIndex converts.                    *)
(*                                                                         *)
(* Left out: the GROQ_API_KEY test at import, a failing read_csv and a     *)
(* failing download of the embedding model; each ends the script run       *)
(* before build_or_load_index does anything.  The compute lock and the     *)
(* second cache read of load_resources are those of st.cache_resource.     *)
(***************************************************************************)
EXTENDS Integers, Sequences, FiniteSets, TLC

\* ---------------------------------------------------------------- bounds
MaxSegments == 3
NumSessions == 2
NumCustomers == 2
MaxReruns == 1

\* ------------------------------------------------------ program constants
K == 3

Sessions == 1..NumSessions

Delimiter == "|"
Whitespace == " "

\* -------------------------------------------------------- text primitives

\* str.split(sep): the segments between the delimiters, n delimiters give
\* n+1 segments, empty ones included.
RECURSIVE SplitFrom(_, _, _)
SplitFrom(text, i, cur) ==
    IF i > Len(text) THEN <<cur>>
    ELSE IF text[i] = Delimiter
         THEN <<cur>> \o SplitFrom(text, i + 1, <<>>)
         ELSE SplitFrom(text, i + 1, Append(cur, text[i]))

Split(text) == SplitFrom(text, 1, <<>>)

RECURSIVE LStrip(_)
LStrip(s) ==
    IF s # <<>> /\ Head(s) = Whitespace THEN LStrip(Tail(s)) ELSE s

RECURSIVE RStrip(_)
RStrip(s) ==
    IF s # <<>> /\ s[Len(s)] = Whitespace
    THEN RStrip(SubSeq(s, 1, Len(s) - 1))
    ELSE s

\* str.strip()
Strip(s) == RStrip(LStrip(s))

\* [text.strip() for text in product_texts if text.strip()]
RECURSIVE StripAndFilter(_)
StripAndFilter(segs) ==
    IF segs = <<>> THEN <<>>
    ELSE IF Strip(Head(segs)) # <<>>
         THEN <<Strip(Head(segs))>> \o StripAndFilter(Tail(segs))
         ELSE StripAndFilter(Tail(segs))

\* str.splitlines(): the empty string has no line at all.
HasFirstLine(doc) == doc # <<>>

\* list[i] with Python's negative positions; ok = FALSE is an IndexError.
PyIndex(list, i) ==
    IF i >= 0 /\ i < Len(list) THEN [ok |-> TRUE, value |-> list[i + 1]]
    ELSE IF i < 0 /\ -i <= Len(list)
         THEN [ok |-> TRUE, value |-> list[Len(list) + i + 1]]
         ELSE [ok |-> FALSE, value |-> <<>>]

\* ---------------------------------------------------- embedding and index

RECURSIVE Count(_, _)
Count(s, w) ==
    IF s = <<>> THEN 0
    ELSE (IF Head(s) = w THEN 1 ELSE 0) + Count(Tail(s), w)

\* SentenceTransformer.encode of one text: deterministic, fixed dimension,
\* blind to surrounding whitespace.
Embed(text) ==
    <<2 * Count(text, "a") + Count(text, "c"),
      2 * Count(text, "b") + Count(text, "c")>>

\* model.encode(list of texts): one vector per text, same order.
Encode(texts) == [i \in 1..Len(texts) |-> Embed(texts[i])]

\* faiss.IndexFlatL2(d) followed by index.add(embeddings)
IndexFlatL2(d, embeddings) == [d |-> d, xb |-> embeddings]

NTotal(index) == Len(index.xb)

RECURSIVE Flatten(_)
Flatten(vs) == IF vs = <<>> THEN <<>> ELSE Head(vs) \o Flatten(Tail(vs))

\* faiss.write_index: header (d, ntotal) and the vectors as one flat array.
WriteIndex(index) ==
    [exists |-> TRUE, d |-> index.d, ntotal |-> NTotal(index),
     codes |-> Flatten(index.xb)]

\* faiss.read_index: cuts the flat array back into ntotal vectors of d.
ReadIndex(file) ==
    [d |-> file.d,
     xb |-> [i \in 1..file.ntotal |->
               [j \in 1..file.d |-> file.codes[(i - 1) * file.d + j]]]]

NoFile == [exists |-> FALSE, d |-> 0, ntotal |-> 0, codes |-> <<>>]

SqDist(u, v) ==
    LET RECURSIVE Sum(_)
        Sum(j) == IF j = 0 THEN 0
                  ELSE (u[j] - v[j]) * (u[j] - v[j]) + Sum(j - 1)
    IN Sum(Len(u))

\* IndexFlatL2.search(q, k): the k nearest stored positions (0-based),
\* closest first, ties by position; when fewer than k vectors are stored
\* the remaining labels are -1.
RECURSIVE SearchFrom(_, _, _, _)
SearchFrom(index, q, k, taken) ==
    IF k = 0 THEN <<>>
    ELSE LET cand == (1..NTotal(index)) \ taken
         IN IF cand = {} THEN <<-1>> \o SearchFrom(index, q, k - 1, taken)
            ELSE LET best == CHOOSE i \in cand : \A j \in cand :
                                \/ SqDist(index.xb[i], q) < SqDist(index.xb[j], q)
                                \/ /\ SqDist(index.xb[i], q) = SqDist(index.xb[j], q)
                                   /\ i <= j
                 IN <<best - 1>> \o SearchFrom(index, q, k - 1, taken \cup {best})

Search(index, q, k) == SearchFrom(index, q, k, {})

\* --------------------------------------------------- build_or_load_index

NoIndex == [d |-> 0, xb |-> <<>>]

ModelName == "all-MiniLM-L6-v2"

\* f.read().split('--------------------------------') of the load path:
\* the raw segments, neither stripped nor filtered.
LoadPathTexts(content) == Split(content)

\* the build path: split, then strip and drop what is empty.
BuildPathTexts(content) == StripAndFilter(Split(content))

\* os.path.exists(INDEX_PATH)
UseLoadPath(corpus, file) == file.exists

\* build_or_load_index(): the outcome of one execution against the two
\* files.  raised = "" is a normal return of (index, model, product_texts);
\* file is faiss_index.bin afterwards.
BuildOrLoadIndex(corpus, file) ==
    IF UseLoadPath(corpus, file)
    THEN IF ~corpus.exists
         THEN [raised |-> "FileNotFoundError", path |-> "load",
               index |-> NoIndex, product_texts |-> <<>>, file |-> file]
         ELSE [raised |-> "", path |-> "load",
               index |-> ReadIndex(file),
               product_texts |-> LoadPathTexts(corpus.content), file |-> file]
    ELSE IF ~corpus.exists
         THEN [raised |-> "FileNotFoundError", path |-> "build",
               index |-> NoIndex, product_texts |-> <<>>, file |-> file]
         ELSE LET product_texts == BuildPathTexts(corpus.content)
                  embeddings == Encode(product_texts)
              IN IF embeddings = <<>>
                 THEN \* embeddings.shape[1] of an empty array
                      [raised |-> "IndexError", path |-> "build",
                       index |-> NoIndex, product_texts |-> <<>>, file |-> file]
                 ELSE LET index == IndexFlatL2(Len(embeddings[1]), embeddings)
                      IN [raised |-> "", path |-> "build", index |-> index,
                          product_texts |-> product_texts,
                          file |-> WriteIndex(index)]

\* ------------------------------------------------------- customer table

Digit(n) == ToString(n)

\* f"{x:.0f}" of a whole amount
Fmt0(x) == ToString(x)

\* f"{x:.2f}", x held in hundredths
Fmt2(h) == ToString(h \div 100) \o "." \o Digit((h % 100) \div 10) \o Digit(h % 10)

ExistingProducts(i) ==
    IF i % 3 = 1 THEN <<"a">>
    ELSE IF i % 3 = 2 THEN <<"b", ",", "c">>
    ELSE <<"c">>

\* LENGTH(existing_products) - LENGTH(REPLACE(existing_products, ',', '')) + 1
ProductCount(products) == Count(products, ",") + 1

EmploymentStatus(i) == IF i % 2 = 1 THEN "Employed" ELSE "Self-Employed"

\* processed_customer_data.csv: one row per customer, customer_id = i.
CustomerRow(i) ==
    [customer_id |-> i, age |-> 29 + i, income |-> 60000 * i,
     credit_score |-> 700, debt_to_income_ratio |-> 30 * i,
     product_count |-> ProductCount(ExistingProducts(i)),
     existing_products |-> ExistingProducts(i),
     engagement_score |-> 20,
     employment_status |-> EmploymentStatus(i)]

CustomerDf == [i \in 1..NumCustomers |-> CustomerRow(i)]

\* as MatchingRows, but an unknown identifier falls back to the first row
MatchingRowsDefaulting(customer_df, customer_id) ==
    LET rows == SelectSeq(customer_df, LAMBDA r : r.customer_id = customer_id)
    IN IF rows = <<>> THEN <<customer_df[1]>> ELSE rows

\* customer_df.loc[customer_df['customer_id'] == customer_id]
MatchingRows(customer_df, customer_id) ==
    SelectSeq(customer_df, LAMBDA r : r.customer_id = customer_id)

\* create_customer_query(customer_data)
create_customer_query(customer_data) ==
    <<"Customer profile: ", "Age ", ToString(customer_data.age), ". ",
      "Income of $", Fmt0(customer_data.income), ". ",
      "Credit score is ", ToString(customer_data.credit_score), ". ",
      "Debt-to-income ratio is ", Fmt2(customer_data.debt_to_income_ratio), ". ",
      "Holds ", ToString(customer_data.product_count), " products, including: ">>
    \o customer_data.existing_products
    \o <<". ", "Digital engagement score is ",
         ToString(customer_data.engagement_score), ". ",
         "Employment status: ", customer_data.employment_status, ".">>

\* ---------------------------------------------------------------- state

VARIABLES
    corpusFile,   \* products.txt: [exists, content]
    indexFile,    \* faiss_index.bin: [exists, d, ntotal, codes]
    cache,        \* st.cache_resource entry of load_resources: [present, value]
    lock,         \* holder of the cache's compute lock, 0 when free
    pc,           \* per session: position of its script run
    handle,       \* per session: what load_resources() returned to it
    req,          \* per session: the request in progress
    outcome,      \* per session: how its script run ended
    lastInit,     \* the latest execution of build_or_load_index
    executions,   \* executions of build_or_load_index so far
    completions,  \* of which returned normally
    builds,       \* of which built and persisted a new index
    dispatched,   \* requests sent to the generation service so far
    reruns        \* script reruns so far

vars == <<corpusFile, indexFile, cache, lock, pc, handle, req, outcome,
          lastInit, executions, completions, builds, dispatched, reruns>>

files == <<corpusFile, indexFile>>
counters == <<executions, completions, builds>>

NoResources ==
    [customer_df |-> <<>>, index |-> NoIndex, model |-> "",
     product_texts |-> <<>>, instance |-> 0]

NoMessage == [model |-> "", role |-> "", temperature |-> "", content |-> <<>>]

NoRequest ==
    [customer_id |-> 0, status |-> "", query_text |-> <<>>, indices |-> <<>>,
     message |-> NoMessage, response |-> ""]

NoOutcome == [kind |-> "none", error |-> "", text |-> ""]

NoInit ==
    [ran |-> FALSE, raised |-> "", path |-> "", corpusExisted |-> FALSE,
     indexExisted |-> FALSE]

SegmentPool ==
    {<<>>, <<Whitespace>>, <<"a">>, <<"b", Whitespace>>, <<Whitespace, "c">>}

RECURSIVE Join(_)
Join(segs) ==
    IF Len(segs) = 1 THEN Head(segs)
    ELSE Head(segs) \o <<Delimiter>> \o Join(Tail(segs))

\* the contents products.txt may have: up to MaxSegments segments
SegmentLists == UNION {[1..m -> SegmentPool] : m \in 1..MaxSegments}

MissingCorpus == [exists |-> FALSE, content |-> <<>>]

CorpusOf(segs) == [exists |-> TRUE, content |-> Join(segs)]

\* faiss_index.bin as an earlier run of build_or_load_index on the corpus
\* left it (no file when that run failed)
Persisted(corpus) == BuildOrLoadIndex(corpus, NoFile).file

\* The two files before the process starts.  Either no earlier run left an
\* index behind, or one did and products.txt has since been left alone,
\* cut down to its first segments, or removed: the program never rewrites
\* an index file that exists.
StartupFileStates ==
    {[corpus |-> c, index |-> NoFile] :
        c \in {MissingCorpus} \cup {CorpusOf(segs) : segs \in SegmentLists}}
    \cup
    UNION {{[corpus |-> c, index |-> Persisted(CorpusOf(segs0))] :
               c \in {MissingCorpus}
                     \cup {CorpusOf(SubSeq(segs0, 1, m)) : m \in 1..Len(segs0)}} :
           segs0 \in SegmentLists}

\* the deployments under which concurrent sessions are explored
ServingCorpus == CorpusOf(<<<<"a">>, <<"b", Whitespace>>, <<Whitespace, "c">>>>)

ServingFileStates ==
    {[corpus |-> MissingCorpus, index |-> NoFile],
     [corpus |-> ServingCorpus, index |-> NoFile],
     [corpus |-> ServingCorpus, index |-> Persisted(ServingCorpus)],
     [corpus |-> CorpusOf(<<<<"a">>>>), index |-> Persisted(ServingCorpus)]}

InitProcess ==
    /\ cache = [present |-> FALSE, value |-> NoResources]
    /\ lock = 0
    /\ handle = [t \in Sessions |-> NoResources]
    /\ req = [t \in Sessions |-> NoRequest]
    /\ outcome = [t \in Sessions |-> NoOutcome]
    /\ lastInit = NoInit
    /\ executions = 0
    /\ completions = 0
    /\ builds = 0
    /\ dispatched = 0
    /\ reruns = 0

\* every session open, a deployment of ServingFileStates
Init ==
    /\ \E fs \in ServingFileStates :
          /\ corpusFile = fs.corpus
          /\ indexFile = fs.index
    /\ pc = [t \in Sessions |-> "start"]
    /\ InitProcess

\* one session open, any deployment of StartupFileStates
InitStartup ==
    /\ \E fs \in StartupFileStates :
          /\ corpusFile = fs.corpus
          /\ indexFile = fs.index
    /\ pc = [t \in Sessions |-> IF t = 1 THEN "start" ELSE "closed"]
    /\ InitProcess

\* ------------------------------------------- load_resources (app.py)

\* as LockFree, but the lock is never waited for
LockNeverHeld == TRUE

\* the compute lock st.cache_resource takes around a cache miss
LockFree == lock = 0

\* cache_resource, fast path: a cached value is returned without the lock.
CacheRead(t) ==
    /\ pc[t] = "start"
    /\ IF cache.present
       THEN /\ handle' = [handle EXCEPT ![t] = cache.value]
            /\ pc' = [pc EXCEPT ![t] = "ready"]
       ELSE /\ pc' = [pc EXCEPT ![t] = "wait_lock"]
            /\ UNCHANGED handle
    /\ UNCHANGED <<files, cache, lock, req, outcome, lastInit, counters,
                   dispatched, reruns>>

\* cache miss: block until the compute lock is free, then take it.
AcquireLock(t) ==
    /\ pc[t] = "wait_lock"
    /\ LockFree
    /\ lock' = t
    /\ pc' = [pc EXCEPT ![t] = "locked"]
    /\ UNCHANGED <<files, cache, handle, req, outcome, lastInit, counters,
                   dispatched, reruns>>

\* under the lock the cache is read again: another session may have
\* computed the value meanwhile.
Recheck(t) ==
    /\ pc[t] = "locked"
    /\ IF cache.present
       THEN /\ handle' = [handle EXCEPT ![t] = cache.value]
            /\ pc' = [pc EXCEPT ![t] = "ready"]
            /\ lock' = 0
       ELSE /\ pc' = [pc EXCEPT ![t] = "computing"]
            /\ UNCHANGED <<handle, lock>>
    /\ UNCHANGED <<files, cache, req, outcome, lastInit, counters,
                   dispatched, reruns>>

\* the body of load_resources: read the customer table, run
\* build_or_load_index; a normal return is cached, an exception is not.
LoadResources(t) ==
    /\ pc[t] = "computing"
    /\ LET r == BuildOrLoadIndex(corpusFile, indexFile)
           value == [customer_df |-> CustomerDf, index |-> r.index,
                     model |-> ModelName, product_texts |-> r.product_texts,
                     instance |-> executions + 1]
       IN /\ indexFile' = r.file
          /\ lastInit' = [ran |-> TRUE, raised |-> r.raised, path |-> r.path,
                          corpusExisted |-> corpusFile.exists,
                          indexExisted |-> indexFile.exists]
          /\ executions' = executions + 1
          /\ builds' = builds + (IF r.raised = "" /\ r.path = "build" THEN 1 ELSE 0)
          /\ IF r.raised = ""
             THEN /\ cache' = [present |-> TRUE, value |-> value]
                  /\ handle' = [handle EXCEPT ![t] = value]
                  /\ pc' = [pc EXCEPT ![t] = "ready"]
                  /\ completions' = completions + 1
                  /\ UNCHANGED outcome
             ELSE /\ outcome' = [outcome EXCEPT ![t] =
                        [kind |-> "raised", error |-> r.raised, text |-> ""]]
                  /\ pc' = [pc EXCEPT ![t] = "failed"]
                  /\ UNCHANGED <<cache, handle, completions>>
    /\ lock' = 0
    /\ UNCHANGED <<corpusFile, req, dispatched, reruns>>

\* ------------------------------------- get_recommendation (the request)

Instruction == <<"You are an expert banking relationship manager.">>
Task == <<"what is the single best product to recommend to this customer?">>
NotFoundText == "Error: Customer ID not found."
LlmModel == "llama3-8b-8192"

\* [product_texts[i] for i in indices[0]], each entry a PyIndex result
LookupAll(product_texts, indices) ==
    [j \in 1..Len(indices) |-> PyIndex(product_texts, indices[j])]

\* as Prompt, but the first two retrieved documents change places
PromptSwapped(query_text, retrieved_docs) ==
    <<Instruction, query_text,
      PyIndex(retrieved_docs, 1).value,
      PyIndex(retrieved_docs, 0).value,
      PyIndex(retrieved_docs, 2).value,
      Task>>

\* the assembled prompt, part by part in the order of the f-string: role
\* instruction, rendered profile, retrieved_docs[0], retrieved_docs[1],
\* retrieved_docs[2], task
Prompt(query_text, retrieved_docs) ==
    <<Instruction, query_text,
      PyIndex(retrieved_docs, 0).value,
      PyIndex(retrieved_docs, 1).value,
      PyIndex(retrieved_docs, 2).value,
      Task>>

\* get_recommendation up to the call of the generation service.
\* status: "not_found" (the error text is returned), "raised" (an exception
\* leaves the function) or "dispatch" (the message goes to the service).
Retrieve(customer_id, customer_df, index, product_texts) ==
    LET rows == MatchingRows(customer_df, customer_id)
        blank == [status |-> "", error |-> "", query_text |-> <<>>,
                  indices |-> <<>>, message |-> NoMessage]
    IN IF rows = <<>>
       THEN [blank EXCEPT !.status = "not_found"]
       ELSE LET query_text == create_customer_query(rows[1])
                query_vector == Embed(query_text)
                indices == Search(index, query_vector, K)
                found == LookupAll(product_texts, indices)
                retrieved_docs == [j \in 1..Len(found) |-> found[j].value]
                seen == [blank EXCEPT !.query_text = query_text,
                                      !.indices = indices]
            IN IF \E j \in 1..Len(found) : ~found[j].ok
               THEN [seen EXCEPT !.status = "raised", !.error = "IndexError"]
               ELSE IF \E j \in 1..Len(found) : ~HasFirstLine(retrieved_docs[j])
               THEN \* doc.splitlines()[0] of an empty document
                    [seen EXCEPT !.status = "raised", !.error = "IndexError"]
               ELSE IF \E j \in 0..2 : ~PyIndex(retrieved_docs, j).ok
               THEN [seen EXCEPT !.status = "raised", !.error = "IndexError"]
               ELSE [seen EXCEPT !.status = "dispatch",
                        !.message = [model |-> LlmModel, role |-> "user",
                                     temperature |-> "0.5",
                                     content |-> Prompt(query_text, retrieved_docs)]]

\* as SharedAfterRequest, but a vector is added to the index
SharedAfterRequestAdding(value, customer_id) ==
    [value EXCEPT !.index.xb = Append(@, <<0, 0>>)]

\* what get_recommendation writes to the objects it is handed: nothing.
SharedAfterRequest(value, customer_id) == value

\* the outcomes of groq_client.chat.completions.create and of
\* response.choices[0].message.content
Responses == {"completion", "timeout", "rate_limit", "malformed"}

\* as GenerationOutcome, but a failed call yields a stock recommendation
GenerationOutcomeDefaulting(resp) ==
    IF resp = "completion"
    THEN [kind |-> "returned", error |-> "", text |-> "recommendation"]
    ELSE [kind |-> "returned", error |-> "", text |-> "default"]

GenerationOutcome(resp) ==
    IF resp = "completion"
    THEN [kind |-> "returned", error |-> "", text |-> "recommendation"]
    ELSE IF resp = "timeout"
    THEN [kind |-> "raised", error |-> "APITimeoutError", text |-> ""]
    ELSE IF resp = "rate_limit"
    THEN [kind |-> "raised", error |-> "RateLimitError", text |-> ""]
    ELSE \* no choice in the response: response.choices[0]
         [kind |-> "raised", error |-> "IndexError", text |-> ""]

\* the button handler calls get_recommendation with the cached objects;
\* the function runs up to the blocking call of the generation service.
GetRecommendationCall(t, customer_id) ==
    /\ pc[t] = "ready"
    /\ LET r == Retrieve(customer_id, handle[t].customer_df, handle[t].index,
                         handle[t].product_texts)
       IN /\ req' = [req EXCEPT ![t] =
                        [customer_id |-> customer_id, status |-> r.status,
                         query_text |-> r.query_text, indices |-> r.indices,
                         message |-> r.message, response |-> ""]]
          /\ IF r.status = "dispatch"
             THEN /\ pc' = [pc EXCEPT ![t] = "awaiting"]
                  /\ dispatched' = dispatched + 1
                  /\ UNCHANGED outcome
             ELSE /\ pc' = [pc EXCEPT ![t] = "done"]
                  /\ outcome' = [outcome EXCEPT ![t] =
                        IF r.status = "not_found"
                        THEN [kind |-> "returned", error |-> "", text |-> NotFoundText]
                        ELSE [kind |-> "raised", error |-> r.error, text |-> ""]]
                  /\ UNCHANGED dispatched
    /\ cache' = [cache EXCEPT !.value = SharedAfterRequest(cache.value, customer_id)]
    /\ UNCHANGED <<files, lock, handle, lastInit, counters, reruns>>

\* the generation service answers, or the call fails.
GenerationReturns(t, resp) ==
    /\ pc[t] = "awaiting"
    /\ outcome' = [outcome EXCEPT ![t] = GenerationOutcome(resp)]
    /\ pc' = [pc EXCEPT ![t] = "done"]
    /\ cache' = [cache EXCEPT !.value =
                    SharedAfterRequest(cache.value, req[t].customer_id)]
    /\ req' = [req EXCEPT ![t].response = resp]
    /\ UNCHANGED <<files, lock, handle, lastInit, counters, dispatched, reruns>>

\* a new interaction reruns the script of the session from the top.
Rerun(t) ==
    /\ pc[t] \in {"done", "failed"}
    /\ reruns < MaxReruns
    /\ reruns' = reruns + 1
    /\ pc' = [pc EXCEPT ![t] = "start"]
    /\ handle' = [handle EXCEPT ![t] = NoResources]
    /\ req' = [req EXCEPT ![t] = NoRequest]
    /\ outcome' = [outcome EXCEPT ![t] = NoOutcome]
    /\ UNCHANGED <<files, cache, lock, lastInit, counters, dispatched>>

RequestIds == 1..(NumCustomers + 1)

Next ==
    \/ \E t \in Sessions : CacheRead(t)
    \/ \E t \in Sessions : AcquireLock(t)
    \/ \E t \in Sessions : Recheck(t)
    \/ \E t \in Sessions : LoadResources(t)
    \/ \E t \in Sessions : \E customer_id \in RequestIds :
          GetRecommendationCall(t, customer_id)
    \/ \E t \in Sessions : \E resp \in Responses : GenerationReturns(t, resp)
    \/ \E t \in Sessions : Rerun(t)

Spec == Init /\ [][Next]_vars

SpecStartup == InitStartup /\ [][Next]_vars

\* ------------------------------------------------------------- claims

Known(customer_df, customer_id) ==
    \E i \in 1..Len(customer_df) : customer_df[i].customer_id = customer_id

Trimmed(text) ==
    /\ text # <<>>
    /\ Head(text) # Whitespace
    /\ text[Len(text)] # Whitespace

\* C1: once build_or_load_index has returned, on the build path and on the
\* load path alike, the index holds as many vectors as product_texts has
\* entries and the vector at position i is the embedding of product_texts[i].
C1_IndexMatchesDocuments ==
    cache.present =>
        /\ NTotal(cache.value.index) = Len(cache.value.product_texts)
        /\ \A i \in 1..NTotal(cache.value.index) :
              cache.value.index.xb[i] = Embed(cache.value.product_texts[i])

\* C7: the document list build_or_load_index returns is the sequence of
\* delimiter-separated segments of the corpus, in order, each trimmed, the
\* empty ones dropped; it holds no empty and no untrimmed entry.
C7_DocumentsTrimmedAndFiltered ==
    cache.present =>
        /\ \A i \in 1..Len(cache.value.product_texts) :
              Trimmed(cache.value.product_texts[i])
        /\ cache.value.product_texts = StripAndFilter(Split(corpusFile.content))

\* C9: when products.txt is missing or holds no non-empty segment,
\* build_or_load_index fails with a ConfigurationError on every path and
\* returns no (index, model, product_texts).
C9_FailsOnMissingOrEmptyCorpus ==
    (/\ lastInit.ran
     /\ \/ ~corpusFile.exists
        \/ \A i \in 1..Len(Split(corpusFile.content)) :
              Strip(Split(corpusFile.content)[i]) = <<>>)
    => /\ lastInit.raised = "ConfigurationError"
       /\ ~cache.present

\* C5: the persisted index is used only when index file and corpus are both
\* present; with exactly one present a rebuild is triggered and startup does
\* not fail for the missing file; an index is never loaded without the
\* corpus it was built from.
C5_PairedArtifacts ==
    lastInit.ran =>
        /\ lastInit.path = "load" =>
              lastInit.indexExisted /\ lastInit.corpusExisted
        /\ lastInit.indexExisted # lastInit.corpusExisted =>
              lastInit.path = "build" /\ lastInit.raised # "FileNotFoundError"
        /\ (lastInit.path = "load" /\ lastInit.raised = "") =>
              cache.value.index.xb = Encode(StripAndFilter(Split(corpusFile.content)))

\* C3: with n < 3 vectors in the index, retrieval yields exactly n results,
\* each a position in 0..n-1, none repeated, no placeholder, and the request
\* does not fail; with 3 or more vectors it yields exactly 3.
C3_ClampedRetrieval ==
    \A t \in Sessions :
        (/\ pc[t] \in {"awaiting", "done"}
         /\ Known(handle[t].customer_df, req[t].customer_id))
        => LET n == NTotal(handle[t].index)
               indices == req[t].indices
           IN /\ Len(indices) = (IF n < K THEN n ELSE K)
              /\ \A j \in 1..Len(indices) : indices[j] \in 0..(n - 1)
              /\ \A i, j \in 1..Len(indices) : i # j => indices[i] # indices[j]
              /\ req[t].status # "raised"

Failures == {"timeout", "rate_limit", "malformed"}

InService(t) == pc[t] \in {"ready", "awaiting", "done"}

\* C2 as stated: a call with a customer_id that has no row fails with a
\* NotFoundError reported to the caller, not returned as text.
C2_UnknownCustomerRaisesNotFound ==
    \A t \in Sessions :
        (/\ pc[t] = "done"
         /\ ~Known(handle[t].customer_df, req[t].customer_id))
        => /\ outcome[t].kind = "raised"
           /\ outcome[t].error = "NotFoundError"

\* C2 amended: a call with a customer_id that has no row returns the fixed
\* text "Error: Customer ID not found." as its ordinary result, raises
\* nothing, and sends no request to the generation service.
C2_UnknownCustomerReturnsErrorText ==
    [][\A t \in Sessions :
          (/\ pc[t] = "ready"
           /\ pc'[t] # "ready"
           /\ ~Known(handle[t].customer_df, req'[t].customer_id))
          => /\ pc'[t] = "done"
             /\ outcome'[t] =
                   [kind |-> "returned", error |-> "", text |-> NotFoundText]
             /\ req'[t].message = NoMessage
             /\ dispatched' = dispatched]_vars

C2_Witness ==
    \E t \in Sessions :
        /\ pc[t] = "done"
        /\ req[t].customer_id = NumCustomers + 1
        /\ ~Known(handle[t].customer_df, req[t].customer_id)
        /\ outcome[t].text = NotFoundText

\* C4 as stated: a failed or malformed generation call ends the request in
\* a GenerationError carrying the cause.
C4_GenerationFailureIsGenerationError ==
    \A t \in Sessions :
        (pc[t] = "done" /\ req[t].response \in Failures)
        => /\ outcome[t].kind = "raised"
           /\ outcome[t].error = "GenerationError"

\* C4 amended: when the generation call times out, is rate limited, or
\* answers with no choice, the request ends by raising that very error
\* (APITimeoutError, RateLimitError, IndexError), unwrapped; it never
\* returns a text in that case.
C4_GenerationFailurePropagates ==
    \A t \in Sessions :
        (pc[t] = "done" /\ req[t].response \in Failures)
        => /\ outcome[t].kind = "raised"
           /\ outcome[t].text = ""
           /\ outcome[t].error =
                 (IF req[t].response = "timeout" THEN "APITimeoutError"
                  ELSE IF req[t].response = "rate_limit" THEN "RateLimitError"
                  ELSE "IndexError")

C4_Witness ==
    \E t \in Sessions :
        /\ pc[t] = "done"
        /\ req[t].response = "rate_limit"
        /\ Known(handle[t].customer_df, req[t].customer_id)
        /\ outcome[t].error = "RateLimitError"

\* C6 as stated: build_or_load_index is executed at most once per process.
C6_ExecutedAtMostOnce == executions <= 1

\* C6 amended: at most one execution of build_or_load_index returns
\* normally and at most one builds an index; it runs under the compute
\* lock, one session at a time; every session that got past load_resources
\* holds the one cached instance.  An execution that raises caches nothing
\* and the next caller runs it again.
C6_AtMostOneCompletion ==
    /\ completions <= 1
    /\ builds <= 1
    /\ Cardinality({t \in Sessions : pc[t] = "computing"}) <= 1
    /\ \A t \in Sessions : pc[t] = "computing" => lock = t
    /\ \A t \in Sessions :
          InService(t) => cache.present /\ handle[t] = cache.value
    /\ cache.present => cache.value.instance = executions

C6_Witness ==
    /\ completions = 1
    /\ builds = 1
    /\ executions = 1
    /\ \A t \in Sessions : pc[t] = "ready" /\ handle[t] = cache.value

C10_RequestsLeaveResourcesUnchanged ==
    [][(/\ cache.present
        /\ \E t \in Sessions : pc[t] \in {"ready", "awaiting"} /\ pc'[t] # pc[t])
       => /\ cache' = cache
          /\ indexFile' = indexFile
          /\ corpusFile' = corpusFile
          /\ handle' = handle]_vars

C10_Witness ==
    /\ cache.present
    /\ \E t \in Sessions : pc[t] = "done" /\ outcome[t].kind = "raised"
    /\ \E t \in Sessions : pc[t] = "done" /\ outcome[t].text = "recommendation"

====
